---- MODULE Spec2Model ----
(***************************************************************************)
(* Model of icing/core/learning_function.py: the mutation-level correction *)
(* learning pipeline (Distance Sampler, Mutation Binning Driver, Threshold *)
(* Extractor, Correction Fitter, Pipeline Orchestrator).                   *)
(*                                                                         *)
(* Real numbers are exact rationals <<n, d>> in lowest terms with d > 0.   *)
(* A raised Python exception is the field exc of a result record.          *)
(***************************************************************************)
EXTENDS Integers, Sequences, FiniteSets, TLC

VARIABLES db, disk, engineCalls, npzWrites, calls, last

vars == <<db, disk, engineCalls, npzWrites, calls, last>>

----------------------------------------------------------------------------
(* Bounds of the model.                                                    *)

\* longest list handed to remove_duplicate_junctions on its own
MaxLen == 3
\* number of points of the grid of _gaussian_fit (np.linspace(0, 1, 10000))
GridPoints == 3
\* largest record count handed to the binning of distr_muts on its own
MaxRecords == 40
\* largest maximum mutation level
MaxMut == 2
\* largest polynomial order requested from learning_function
MaxOrder == 3
\* number of operations in one behaviour
MaxCalls == 2

----------------------------------------------------------------------------
(* Arithmetic.                                                             *)

Abs(x) == IF x < 0 THEN -x ELSE x

Min(a, b) == IF a <= b THEN a ELSE b

RECURSIVE GCD(_, _)
GCD(a, b) == IF b = 0 THEN a ELSE GCD(b, a % b)

\* the rational n/d (d # 0) in lowest terms, positive denominator
Frac(n, d) ==
    LET s == IF d < 0 THEN -1 ELSE 1
        g == GCD(Abs(n), Abs(d))
    IN  IF n = 0 THEN <<0, 1>> ELSE <<(s * n) \div g, (s * d) \div g>>

RLt(a, b) == a[1] * b[2] < b[1] * a[2]

RLe(a, b) == a[1] * b[2] <= b[1] * a[2]

RMax(a, b) == IF RLt(a, b) THEN b ELSE a

RDiv(a, b) == Frac(a[1] * b[2], a[2] * b[1])

RECURSIVE SumSeq(_)
SumSeq(s) == IF s = <<>> THEN 0 ELSE s[1] + SumSeq(Tail(s))

\* the sequences over S of length at most n
SeqsUpTo(S, n) == UNION {[1..k -> S] : k \in 0..n}

\* the elements of s whose index is in keep, in order, from index i on
RECURSIVE KeepFrom(_, _, _)
KeepFrom(s, keep, i) ==
    IF i > Len(s) THEN <<>>
    ELSE (IF i \in keep THEN <<s[i]>> ELSE <<>>) \o KeepFrom(s, keep, i + 1)

Prefix(s, n) == SubSeq(s, 1, Min(Len(s), n))

Range(s) == {s[i] : i \in DOMAIN s}

----------------------------------------------------------------------------
(* remove_duplicate_junctions (learning_function.py 48-56).                *)

\* characters of a junction; "." and "/" are the gap characters
Chars == {"A", "N", ".", "/"}

GapChars == {".", "/"}

\* extra.junction_re: every gap character becomes "N"
junction_re(junction) ==
    [i \in DOMAIN junction |->
        IF junction[i] \in GapChars THEN "N" ELSE junction[i]]

\* the loop of remove_duplicate_junctions, igs and juncs being its locals
RECURSIVE DedupLoop(_, _, _)
DedupLoop(igs_list, igs, juncs) ==
    IF igs_list = <<>> THEN [igs |-> igs, juncs |-> juncs]
    ELSE LET ig == Head(igs_list)
             junc == junction_re(ig.junction)
         IN  IF junc \notin Range(juncs)
             THEN DedupLoop(Tail(igs_list), Append(igs, ig),
                            Append(juncs, junc))
             ELSE DedupLoop(Tail(igs_list), igs, juncs)

\* the variant that keeps every sequence
remove_duplicate_junctions_raw(igs_list) ==
    [igs |-> igs_list,
     juncs |-> [i \in DOMAIN igs_list |-> junction_re(igs_list[i].junction)]]

remove_duplicate_junctions(igs_list) == DedupLoop(igs_list, <<>>, <<>>)

----------------------------------------------------------------------------
(* _gaussian_fit (learning_function.py 250-289).                           *)

\* distance arrays, in units of 1/DistScale
DistScale == 2

DistValues == 1..DistScale

\* a fitted 3-component mixture: the component means and the component
\* predicted for every grid point (gmm.means_, gmm.predict(lin))
Components == 0..2

MeanValues == {0, 1}

Fits == [means : [Components -> MeanValues],
         pred : [0..(GridPoints - 1) -> Components]]

\* np.argmax: the first index of the largest value
ArgMax(means) ==
    CHOOSE c \in Components :
        /\ \A e \in Components : means[e] <= means[c]
        /\ \A e \in Components : e < c => means[e] < means[c]

SetMin(S) == CHOOSE x \in S : \A y \in S : x <= y

\* lin = np.linspace(0, 1, GridPoints): the grid value at index idx
Lin(idx) == Frac(idx, GridPoints - 1)

\* the variant without the except ValueError branch
gaussian_fit_noexcept(array, fit) ==
    IF Len(array) < 2 THEN [exc |-> "none", value |-> <<0, 1>>]
    ELSE LET where == {i \in 0..(GridPoints - 1) :
                          fit.pred[i] = ArgMax(fit.means)}
         IN  IF where = {} THEN [exc |-> "ValueError", value |-> <<0, 1>>]
             ELSE [exc |-> "none", value |-> Lin(SetMin(where))]

gaussian_fit(array, fit) ==
    IF Len(array) < 2 THEN [exc |-> "none", value |-> <<0, 1>>]
    ELSE LET where == {i \in 0..(GridPoints - 1) :
                          fit.pred[i] = ArgMax(fit.means)}
             idx == IF where = {} THEN 0 ELSE SetMin(where)
         IN  [exc |-> "none", value |-> Lin(idx)]

\* what _gaussian_fit can return for an array, over every mixture fit
GaussianFitOutcomes(array) == {gaussian_fit(array, fit) : fit \in Fits}

\* the same, tabulated: _gaussian_fit reads the array through its length
\* test alone, the rest of it being the fit
OutcomesShort == GaussianFitOutcomes(<<>>)

OutcomesLong == GaussianFitOutcomes(<<1, 1>>)

OutcomesFor(array) == IF Len(array) < 2 THEN OutcomesShort ELSE OutcomesLong

----------------------------------------------------------------------------
(* The bins of distr_muts (learning_function.py 224-232).                  *)

\* a bin (lo, hi); float tells a numpy float from the int of (0, 0)
ZeroBin == [lo |-> <<0, 1>>, hi |-> <<0, 1>>, float |-> FALSE]

\* np.linspace(0, max_mut, n_tot / 10.): the point count is truncated
Linspace(max_mut, num) ==
    IF num = 0 THEN <<>>
    ELSE IF num = 1 THEN << <<0, 1>> >>
    ELSE [i \in 1..num |-> Frac(max_mut * (i - 1), num - 1)]

\* the 10. of n_tot / 10.
BinDivisor == 10

\* sets = [(0, 0)] + zip(lin[:-1], lin[1:])
BinSets(max_mut, n_tot) ==
    LET lin == Linspace(max_mut, n_tot \div BinDivisor)
    IN  <<ZeroBin>> \o
        [i \in 1..(Len(lin) - 1) |->
            [lo |-> lin[i], hi |-> lin[i + 1], float |-> TRUE]]

\* len(sets) == 1: no correction needs to be applied
NoCorrection(sets) == Len(sets) = 1

----------------------------------------------------------------------------
(* The database collaborator (io.get_num_records, io.get_max_mut,          *)
(* io.read_db) over a database of CountUnit-sized groups of records.       *)

\* records of one group of the database: as many as make one more point
\* of the partition
CountUnit == BinDivisor

\* largest number of groups in a database
MaxGroups == 2

DbMuts == {0, 2}

\* the junctions of a group, met in turn: one junction, two spellings of
\* one normalized junction, two junctions
DbPatterns == {<< <<"A">> >>, << <<".">>, <<"N">> >>, << <<"A">>, <<"N">> >>}

\* a group is CountUnit records sharing a mutation level
Groups == [mut : DbMuts, junctions : DbPatterns]

\* groups are listed by mutation level, unmutated first
Databases ==
    {f \in UNION {[1..k -> Groups] : k \in 1..MaxGroups} :
        \A i, j \in DOMAIN f : i < j => f[i].mut <= f[j].mut}

\* the records of the database in file order
Records(f) ==
    [i \in 1..(CountUnit * Len(f)) |->
        LET g == f[((i - 1) \div CountUnit) + 1]
        IN  [id |-> i,
             junction |-> g.junctions[((i - 1) % Len(g.junctions)) + 1],
             mut |-> g.mut]]

get_num_records(f) == Len(Records(f))

get_max_mut(f) ==
    CHOOSE m \in {r.mut : r \in Range(Records(f))} :
        \A r \in Range(Records(f)) : r.mut <= m

\* io.read_db(f, filt, max_records): the records whose index is in keep,
\* at most max_records of them (a rational)
read_db(f, keep, max_records) ==
    Prefix(KeepFrom(Records(f), keep, 1), max_records[1] \div max_records[2])

----------------------------------------------------------------------------
(* The Distance Sampler: make_hist and intra_donor_distance                *)
(* (learning_function.py 63-172).                                          *)

\* "{}".format(v): an int and a numpy float never print alike
Format(v, float) == <<IF float THEN "float" ELSE "int", v[1], v[2]>>

\* the cache path computed at lines 139-142
Filename(donor, lim_mut1, lim_mut2, bins, max_seqs) ==
    <<donor, Format(lim_mut1.lo, lim_mut1.float),
      Format(lim_mut1.hi, lim_mut1.float),
      Format(lim_mut2.lo, lim_mut2.float),
      Format(lim_mut2.hi, lim_mut2.float), bins, max_seqs>>

\* the empty path sentinel ''
EmptyPath == <<>>

\* the variant that tests the path without its extension
ExistsNoExt(files, filename) == <<filename, "">> \in DOMAIN files

\* os.path.exists(filename + '.npz')
ExistsNpz(files, filename) == <<filename, ".npz">> \in DOMAIN files

\* np.savez(filename, X=dnearest, mut=mut) and plt.savefig(filename + ".png")
SaveArtifact(files, filename, dnearest, mut) ==
    [p \in DOMAIN files \cup {<<filename, ".npz">>, <<filename, ".png">>} |->
        IF p = <<filename, ".npz">> THEN [X |-> dnearest, mut |-> mut]
        ELSE IF p = <<filename, ".png">> THEN [X |-> <<>>, mut |-> <<0, 1>>]
        ELSE files[p]]

\* st is the state the call starts in: the files of the disk and the
\* counters of engine calls and of artifact writes.  oracle is what the
\* nearest-neighbour engine would return for the first set.
make_hist(st, juncs1, juncs2, filename, mut, max_seqs, min_seqs, ig1, ig2, sim_func_args, oracle) ==
    IF ExistsNpz(st.files, filename)
    THEN [exc |-> "none", path |-> filename, st |-> st]
    ELSE IF Len(juncs1) < min_seqs \/ Len(juncs2) < min_seqs
    THEN [exc |-> "none", path |-> EmptyPath, st |-> st]
    ELSE IF sim_func_args = "None"
    THEN [exc |-> "TypeError", path |-> EmptyPath, st |-> st]
    ELSE LET \* the sample of at most max_seqs sequences of the first set
             ig1s == Prefix(ig1, max_seqs)
             \* dnearest_intra_padding: at most one distance per sequence
             dnearest == Prefix(oracle, Len(ig1s))
         IN  [exc |-> "none", path |-> filename,
              st |-> [files |-> SaveArtifact(st.files, filename, dnearest, mut),
                      engineCalls |-> st.engineCalls + 1,
                      npzWrites |-> st.npzWrites + 1]]

\* np.mean of the mutation levels of igs1 chained with igs2
MeanMut(igs1, igs2) ==
    Frac(SumSeq([i \in DOMAIN igs1 |-> igs1[i].mut])
         + SumSeq([i \in DOMAIN igs2 |-> igs2[i].mut]),
         Len(igs1) + Len(igs2))

\* the indexes of the records x with lim[0] < x.mut <= lim[1]
InBin(f, lim) ==
    {i \in DOMAIN Records(f) :
        /\ RLt(lim.lo, <<Records(f)[i].mut, 1>>)
        /\ RLe(<<Records(f)[i].mut, 1>>, lim.hi)}

intra_donor_distance(st, f, lim_mut1, lim_mut2, quantity, donor, bins, max_seqs, min_seqs, sim_func_args, oracle) ==
    LET filename == Filename(donor, lim_mut1, lim_mut2, bins, max_seqs)
        n_tot == get_num_records(f)
        max_records == Frac(quantity[1] * n_tot, quantity[2])
    IN  IF ExistsNpz(st.files, filename)
        THEN [exc |-> "none", path |-> filename,
              mut |-> st.files[<<filename, ".npz">>].mut, st |-> st]
        ELSE IF RMax(lim_mut1.hi, lim_mut2.hi) = <<0, 1>>
        THEN LET igs == read_db(f, {i \in DOMAIN Records(f) :
                                       Records(f)[i].mut = 0}, max_records)
                 r1 == remove_duplicate_junctions(igs)
                 h == make_hist(st, r1.juncs, r1.juncs, filename, <<0, 1>>,
                                max_seqs, min_seqs, r1.igs, r1.igs,
                                sim_func_args, oracle)
             IN  [exc |-> h.exc, path |-> h.path, mut |-> <<0, 1>>,
                  st |-> h.st]
        ELSE LET r1 == remove_duplicate_junctions(
                           read_db(f, InBin(f, lim_mut1), max_records))
                 r2 == remove_duplicate_junctions(
                           read_db(f, InBin(f, lim_mut2), max_records))
             IN  IF Len(r1.juncs) = 0 \/ Len(r2.juncs) = 0
                 THEN [exc |-> "none", path |-> EmptyPath, mut |-> <<0, 1>>,
                       st |-> st]
                 ELSE LET mut == MeanMut(r1.igs, r2.igs)
                          h == make_hist(st, r1.juncs, r2.juncs, filename,
                                         mut, max_seqs, min_seqs, r1.igs,
                                         r2.igs, sim_func_args, oracle)
                      IN  [exc |-> h.exc, path |-> h.path, mut |-> mut,
                           st |-> h.st]

----------------------------------------------------------------------------
(* The Mutation Binning Driver: distr_muts (learning_function.py 219-247). *)

\* the comprehension of lines 235-239 from the i-th bin on; an exception
\* of a call ends it.  a holds the arguments handed down to every call.
RECURSIVE DistrLoop(_, _, _, _, _, _, _)
DistrLoop(st, f, sets, i, out_muts, a, oracles) ==
    IF i > Len(sets) THEN [exc |-> "none", out_muts |-> out_muts, st |-> st]
    ELSE LET r == intra_donor_distance(st, f, sets[i], sets[i], a.quantity,
                                       a.donor, a.bins, a.max_seqs,
                                       a.min_seqs, a.sim_func_args,
                                       oracles[i])
         IN  IF r.exc # "none"
             THEN [exc |-> r.exc, out_muts |-> <<>>, st |-> r.st]
             ELSE DistrLoop(r.st, f, sets, i + 1,
                            Append(out_muts, [f |-> r.path, m |-> r.mut]),
                            a, oracles)

\* d.setdefault(m, []).append(f) for every (f, m) of out_muts
GroupByMut(out_muts) ==
    [m \in {out_muts[i].m : i \in DOMAIN out_muts} |->
        LET sel == KeepFrom(out_muts,
                            {i \in DOMAIN out_muts : out_muts[i].m = m}, 1)
        IN  [i \in DOMAIN sel |-> sel[i].f]]

\* the value None of my_dict
NoneDict == [isNone |-> TRUE, d |-> <<>>]

\* the donor of a database is the last component of its path
Donor == "B4"

\* io_fails: io.get_max_mut or io.get_num_records raises
distr_muts(st, f, quantity, bins, max_seqs, min_seqs, sim_func_args, io_fails, oracles) ==
    IF io_fails
    THEN [my_dict |-> [isNone |-> FALSE, d |-> GroupByMut(<<>>)],
          sets |-> <<>>, caught |-> "IOError", st |-> st]
    ELSE LET sets == BinSets(get_max_mut(f), get_num_records(f))
             a == [quantity |-> quantity, donor |-> Donor, bins |-> bins,
                   max_seqs |-> max_seqs, min_seqs |-> min_seqs,
                   sim_func_args |-> sim_func_args]
             loop == DistrLoop(st, f, sets, 1, <<>>, a, oracles)
         IN  IF NoCorrection(sets)
             THEN [my_dict |-> NoneDict, sets |-> sets, caught |-> "none",
                   st |-> st]
             ELSE [my_dict |-> [isNone |-> FALSE,
                                d |-> GroupByMut(loop.out_muts)],
                   sets |-> sets, caught |-> loop.exc, st |-> loop.st]

----------------------------------------------------------------------------
(* The Correction Fitter: learning_function (learning_function.py 292-375).*)

\* the keys of a dict in ascending order
RECURSIVE SortedKeys(_)
SortedKeys(S) ==
    IF S = {} THEN <<>>
    ELSE LET m == CHOOSE x \in S : \A y \in S : RLe(x, y)
         IN  <<m>> \o SortedKeys(S \ {m})

\* the non-empty paths o of the list v of key k, as the loop of lines
\* 317-318 meets them
LoadsOfKey(k, v) ==
    LET sel == KeepFrom(v, {i \in DOMAIN v : v[i] # EmptyPath}, 1)
    IN  [i \in DOMAIN sel |-> [k |-> k, o |-> sel[i]]]

RECURSIVE LoadsFrom(_, _, _)
LoadsFrom(d, keys, i) ==
    IF i > Len(keys) THEN <<>>
    ELSE LoadsOfKey(keys[i], d[keys[i]]) \o LoadsFrom(d, keys, i + 1)

\* every (k, o) the loop of lines 317-326 loads, in order
Loads(d) == LoadsFrom(d, SortedKeys(DOMAIN d), 1)

\* the value nan of np.mean([])
NaN == <<0, 0>>

\* np.mean of a distance array
MeanDist(X) == IF Len(X) = 0 THEN NaN ELSE Frac(SumSeq(X), Len(X) * DistScale)

\* mean > 0, false of nan
Positive(y) == y[2] # 0 /\ y[1] > 0

\* the permutations np.argsort may return for samples
Argsorts(samples) ==
    {p \in [DOMAIN samples -> DOMAIN samples] :
        /\ \A i, j \in DOMAIN samples : i # j => p[i] # p[j]
        /\ \A i, j \in DOMAIN samples :
               i < j => samples[p[i]] <= samples[p[j]]}

\* the variant that does not reverse the argsort
ThresholdSelectionAscending(thresholds, argsort) ==
    LET sorted == [i \in DOMAIN thresholds |-> thresholds[argsort[i]]]
        positive == KeepFrom(sorted,
                             {i \in DOMAIN sorted : Positive(sorted[i])}, 1)
    IN  IF positive = <<>> THEN <<0, 1>> ELSE positive[1]

\* (filter(lambda x: x > 0, thresholds[samples.argsort()[::-1]]) or [0])[0]
ThresholdSelection(thresholds, argsort) ==
    LET n == Len(thresholds)
        sorted == [i \in 1..n |-> thresholds[argsort[n + 1 - i]]]
        positive == KeepFrom(sorted,
                             {i \in DOMAIN sorted : Positive(sorted[i])}, 1)
    IN  IF positive = <<>> THEN <<0, 1>> ELSE positive[1]

\* np.polyfit(xvals, yvals, deg) warns RankWarning when the rank of the
\* Vandermonde matrix of the distinct xvals is below deg + 1
RankDeficient(xvals, deg) == Len(xvals) < deg + 1

\* the model lambda _: 1
Identity == [kind |-> "identity", order |-> 0, xvals |-> <<>>, yvals |-> <<>>]

\* thr[i] is what _gaussian_fit returns for the i-th load, argsort what
\* np.argsort returns for samples
learning_function(files, my_dict, order, thr, argsort) ==
    IF my_dict.isNone
    THEN [exc |-> "none", func |-> Identity, threshold |-> <<0, 1>>,
          fitted |-> FALSE, thresholds |-> <<>>, samples |-> <<>>,
          xvals |-> <<>>]
    ELSE
    LET loads == Loads(my_dict.d)
        n == Len(loads)
        Raise(e) == [exc |-> e, func |-> Identity, threshold |-> <<0, 1>>,
                     fitted |-> FALSE, thresholds |-> <<>>, samples |-> <<>>,
                     xvals |-> <<>>]
        X(i) == files[<<loads[i].o, ".npz">>].X
        samples == [i \in 1..n |-> Len(X(i))]
        thresholds == [i \in 1..n |-> thr[i].value]
        \* d_dict[donor]: the mean of the first load of every key
        keys == {loads[i].k : i \in 1..n}
        first(k) == CHOOSE i \in 1..n :
                        /\ loads[i].k = k
                        /\ \A j \in 1..n : loads[j].k = k => i <= j
        mean(k) == MeanDist(X(first(k)))
        xvals == SortedKeys({k \in keys : Positive(mean(k))})
        min_y == CHOOSE y \in {mean(xvals[i]) : i \in DOMAIN xvals} :
                     \A i \in DOMAIN xvals : RLe(y, mean(xvals[i]))
        yvals == [i \in DOMAIN xvals |-> RDiv(min_y, mean(xvals[i]))]
        Return(deg) ==
            [exc |-> "none",
             func |-> [kind |-> "poly", order |-> deg, xvals |-> xvals,
                       yvals |-> yvals],
             threshold |-> ThresholdSelection(thresholds, argsort),
             fitted |-> TRUE, thresholds |-> thresholds, samples |-> samples,
             xvals |-> xvals]
    IN  IF \E i \in 1..n : <<loads[i].o, ".npz">> \notin DOMAIN files
        THEN Raise("IOError")
        ELSE IF \E i \in 1..n : thr[i].exc # "none"
        THEN Raise("ValueError")
        ELSE IF n = 0
        THEN Raise("UnboundLocalError")
        ELSE IF Len(xvals) < 2
        THEN [exc |-> "none", func |-> Identity, threshold |-> <<0, 1>>,
              fitted |-> FALSE, thresholds |-> thresholds,
              samples |-> samples, xvals |-> xvals]
        ELSE IF ~RankDeficient(xvals, order)
        THEN Return(order)
        ELSE IF ~RankDeficient(xvals, 2)
        THEN Return(2)
        ELSE [exc |-> "RankWarning", func |-> Identity,
              threshold |-> <<0, 1>>, fitted |-> TRUE,
              thresholds |-> thresholds, samples |-> samples,
              xvals |-> xvals]

\* the tuples that take their i-th element from sets[i]
RECURSIVE Product(_)
Product(sets) ==
    IF sets = <<>> THEN {<<>>}
    ELSE {<<h>> \o t : h \in sets[1], t \in Product(Tail(sets))}

\* the oracles of a call of learning_function: one outcome of _gaussian_fit
\* for every load and one argsort of the sample counts
ThrChoices(files, my_dict) ==
    LET loads == Loads(my_dict.d)
        n == Len(loads)
    IN  IF my_dict.isNone
           \/ \E i \in 1..n : <<loads[i].o, ".npz">> \notin DOMAIN files
        THEN {<<>>}
        ELSE Product([i \in 1..n |->
                         OutcomesFor(files[<<loads[i].o, ".npz">>].X)])

ArgsortChoices(files, my_dict) ==
    LET loads == Loads(my_dict.d)
        n == Len(loads)
    IN  IF my_dict.isNone
           \/ \E i \in 1..n : <<loads[i].o, ".npz">> \notin DOMAIN files
        THEN {<<>>}
        ELSE Argsorts([i \in 1..n |-> Len(files[<<loads[i].o, ".npz">>].X)])

----------------------------------------------------------------------------
(* The Pipeline Orchestrator: generate_correction_function                 *)
(* (learning_function.py 378-400).                                         *)

\* db_no_ext + "_correction_function.npy" and "threshold_naive.npy"
ParamsArtifact == "correction_function.npy"

ThresholdArtifact == "threshold_naive.npy"

\* the variant that is content with one of the two artifacts
ArtifactsExistEither(models) ==
    ParamsArtifact \in DOMAIN models \/ ThresholdArtifact \in DOMAIN models

\* os.path.exists(filename) and os.path.exists("threshold_naive.npy")
ArtifactsExist(models) ==
    ParamsArtifact \in DOMAIN models /\ ThresholdArtifact \in DOMAIN models

\* the defaults of distr_muts that generate_correction_function leaves alone
DefaultBins == 50

DefaultMaxSeqs == 4000

\* min_seqs=2 of line 394
PipelineMinSeqs == 2

\* dm names what distr_muts(db, quantity=quantity, min_seqs=2,
\* sim_func_args=sim_func_args) returns at lines 393-394 and lf what
\* learning_function(my_dict, order, aplot) returns at line 395; neither is
\* evaluated in case 1
generate_correction_function(st, models, dm, lf) ==
    IF ArtifactsExist(models)
    THEN IF ParamsArtifact \in DOMAIN models
            /\ ThresholdArtifact \in DOMAIN models
         THEN [exc |-> "none", popt |-> models[ParamsArtifact],
               threshold_naive |-> models[ThresholdArtifact],
               recomputed |-> FALSE, my_dict |-> NoneDict, caught |-> "none",
               st |-> st, models |-> models]
         ELSE [exc |-> "IOError", popt |-> Identity,
               threshold_naive |-> <<0, 1>>, recomputed |-> FALSE,
               my_dict |-> NoneDict, caught |-> "none", st |-> st,
               models |-> models]
    ELSE [exc |-> lf.exc, popt |-> lf.func, threshold_naive |-> lf.threshold,
          recomputed |-> TRUE, my_dict |-> dm.my_dict, caught |-> dm.caught,
          st |-> dm.st, models |-> models]

----------------------------------------------------------------------------
(* The state machine.  db is the database of the donor, disk the files     *)
(* (the cache artifacts) and the model artifacts on disk, engineCalls and  *)
(* npzWrites count the calls of the nearest-neighbour engine and of        *)
(* np.savez, calls counts the operations and last is the last operation    *)
(* with its arguments and its result.                                      *)

NoFiles == <<>>

\* the arguments the operations are called with
Quantities == {<<1, 1>>, <<1, 10>>}

\* the quantity the pipeline is run with
PipelineQuantities == Quantities

SimArgs == {"None", "dict"}

EngineArrays == {<<>>, <<1>>, <<1, 2>>}

\* the contents of the model artifacts a user may have put on disk
SavedPopt == [kind |-> "saved", order |-> 3, xvals |-> <<>>, yvals |-> <<>>]

ModelDisks ==
    {<<>>,
     [a \in {ParamsArtifact} |-> SavedPopt],
     [a \in {ThresholdArtifact} |-> <<1, 2>>],
     [a \in {ParamsArtifact, ThresholdArtifact} |->
         IF a = ParamsArtifact THEN SavedPopt ELSE <<1, 2>>]}

St == [files |-> disk.files, engineCalls |-> engineCalls,
       npzWrites |-> npzWrites]

Init ==
    /\ db \in Databases
    /\ disk \in [files : {NoFiles}, models : ModelDisks]
    /\ engineCalls = 0
    /\ npzWrites = 0
    /\ calls = 0
    /\ last = [op |-> "init"]

NumBins(f) == Len(BinSets(get_max_mut(f), get_num_records(f)))

\* what distr_muts can return in the current state, over its oracles
DistrMutsOutcomes(quantity) ==
    {distr_muts(St, db, quantity, DefaultBins, DefaultMaxSeqs,
                PipelineMinSeqs, sim_func_args, io_fails, oracles) :
        sim_func_args \in SimArgs, io_fails \in BOOLEAN,
        oracles \in [1..NumBins(db) -> EngineArrays]}

\* the value of dm in case 1, where distr_muts is not called
NotCalled == [my_dict |-> NoneDict, sets |-> <<>>, caught |-> "none",
              st |-> St]

Generate ==
    LET hit == ParamsArtifact \in DOMAIN disk.models
               /\ ThresholdArtifact \in DOMAIN disk.models
    IN  \E quantity \in PipelineQuantities :
        \E dm \in IF hit THEN {NotCalled} ELSE DistrMutsOutcomes(quantity) :
        \E r \in {generate_correction_function(
                      St, disk.models, dm,
                      learning_function(dm.st.files, dm.my_dict, order, thr,
                                        argsort)) :
                      thr \in ThrChoices(dm.st.files, dm.my_dict),
                      argsort \in ArgsortChoices(dm.st.files, dm.my_dict),
                      order \in {1, MaxOrder}} :
            /\ disk' = [files |-> r.st.files, models |-> r.models]
            /\ engineCalls' = r.st.engineCalls
            /\ npzWrites' = r.st.npzWrites
            /\ last' = [op |-> "generate_correction_function",
                        hit |-> hit, exc |-> r.exc, popt |-> r.popt,
                        threshold_naive |-> r.threshold_naive,
                        recomputed |-> r.recomputed,
                        my_dict |-> r.my_dict, caught |-> r.caught]
            /\ UNCHANGED <<db, calls>>

Next == Generate

Spec == Init /\ [][Next]_vars

----------------------------------------------------------------------------
(* The Distance Sampler called on its own.                                 *)

FloatBin(lo, hi) == [lo |-> <<lo, 1>>, hi |-> <<hi, 1>>, float |-> TRUE]

\* the pairs (lim_mut1, lim_mut2) the sampler is called with
LimPairs ==
    {<<ZeroBin, ZeroBin>>, <<FloatBin(0, 2), FloatBin(0, 2)>>,
     <<ZeroBin, FloatBin(0, 2)>>, <<FloatBin(0, 1), FloatBin(1, 2)>>}

\* bins=100, max_seqs=1000 of line 133
IntraBins == 100

IntraMaxSeqs == 1000

MinSeqsArgs == {0, 2}

\* the deduplicated set of a range, as lines 149-164 build it
FilteredSet(f, lim_mut1, lim_mut2, lim, quantity) ==
    LET max_records == Frac(quantity[1] * get_num_records(f), quantity[2])
    IN  IF RMax(lim_mut1.hi, lim_mut2.hi) = <<0, 1>>
        THEN remove_duplicate_junctions(
                 read_db(f, {i \in DOMAIN Records(f) : Records(f)[i].mut = 0},
                         max_records)).igs
        ELSE remove_duplicate_junctions(
                 read_db(f, InBin(f, lim), max_records)).igs

InitSampler ==
    /\ db \in Databases
    /\ disk = [files |-> NoFiles, models |-> <<>>]
    /\ engineCalls = 0
    /\ npzWrites = 0
    /\ calls = 0
    /\ last = [op |-> "init"]

IntraDonorDistance ==
    /\ calls < MaxCalls
    /\ \E pair \in LimPairs, quantity \in Quantities,
          min_seqs \in MinSeqsArgs, sim_func_args \in SimArgs :
       \E r \in {intra_donor_distance(St, db, pair[1], pair[2], quantity,
                                      Donor, IntraBins, IntraMaxSeqs,
                                      min_seqs, sim_func_args, oracle) :
                     oracle \in EngineArrays} :
         LET key == <<Donor, pair[1], pair[2], IntraBins, IntraMaxSeqs>>
             filename == Filename(Donor, pair[1], pair[2], IntraBins,
                                  IntraMaxSeqs)
             n1 == Len(FilteredSet(db, pair[1], pair[2], pair[1], quantity))
             n2 == Len(FilteredSet(db, pair[1], pair[2], pair[2], quantity))
         IN  /\ disk' = [disk EXCEPT !.files = r.st.files]
             /\ engineCalls' = r.st.engineCalls
             /\ npzWrites' = r.st.npzWrites
             /\ calls' = calls + 1
             /\ last' = [op |-> "intra_donor_distance", key |-> key,
                         filename |-> filename,
                         existed |-> <<filename, ".npz">> \in DOMAIN disk.files,
                         prev |-> IF last.op = "intra_donor_distance"
                                  THEN <<last.key, last.exc, last.path>>
                                  ELSE <<>>,
                         zero |-> RMax(pair[1].hi, pair[2].hi) = <<0, 1>>,
                         min_seqs |-> min_seqs, n1 |-> n1, n2 |-> n2,
                         exc |-> r.exc, path |-> r.path, mut |-> r.mut]
             /\ UNCHANGED db

NextSampler == IntraDonorDistance

SpecSampler == InitSampler /\ [][NextSampler]_vars

----------------------------------------------------------------------------
(* The functions called on their own, on inputs drawn from bounded sets.   *)

InitWith(inputs) ==
    /\ db = <<>>
    /\ disk = [files |-> NoFiles, models |-> <<>>]
    /\ engineCalls = 0
    /\ npzWrites = 0
    /\ calls = 0
    /\ last \in inputs

\* junctions of two characters
TestJunctions == [1..2 -> Chars]

InitDedup ==
    InitWith({[op |-> "init",
               igs_list |-> [i \in DOMAIN junctions |->
                                [id |-> i, junction |-> junctions[i],
                                 mut |-> 0]]] :
                 junctions \in SeqsUpTo(TestJunctions, MaxLen)})

RemoveDuplicateJunctions ==
    /\ last.op = "init"
    /\ LET r == remove_duplicate_junctions(last.igs_list)
       IN  last' = [op |-> "remove_duplicate_junctions",
                    igs_list |-> last.igs_list, igs |-> r.igs,
                    juncs |-> r.juncs]
    /\ UNCHANGED <<db, disk, engineCalls, npzWrites, calls>>

SpecDedup == InitDedup /\ [][RemoveDuplicateJunctions]_vars

InitGauss ==
    InitWith([op : {"init"}, array : SeqsUpTo(DistValues, MaxLen),
              fit : Fits])

GaussianFit ==
    /\ last.op = "init"
    /\ LET r == gaussian_fit(last.array, last.fit)
       IN  last' = [op |-> "_gaussian_fit", array |-> last.array,
                    fit |-> last.fit, exc |-> r.exc, value |-> r.value]
    /\ UNCHANGED <<db, disk, engineCalls, npzWrites, calls>>

SpecGauss == InitGauss /\ [][GaussianFit]_vars

InitBins ==
    InitWith([op : {"init"}, max_mut : 0..MaxMut, n_tot : 1..MaxRecords])

\* lines 224-232 of distr_muts for a maximum mutation and a record count
Binning ==
    /\ last.op = "init"
    /\ LET sets == BinSets(last.max_mut, last.n_tot)
       IN  last' = [op |-> "distr_muts", max_mut |-> last.max_mut,
                    n_tot |-> last.n_tot, sets |-> sets,
                    none |-> NoCorrection(sets)]
    /\ UNCHANGED <<db, disk, engineCalls, npzWrites, calls>>

SpecBins == InitBins /\ [][Binning]_vars

\* the cache artifacts learning_function is handed: those of three bins
LearnBins == <<ZeroBin, FloatBin(0, 1), FloatBin(1, 2)>>

LearnPath(i) ==
    Filename(Donor, LearnBins[i], LearnBins[i], DefaultBins, DefaultMaxSeqs)

LearnArrays == {<<>>, <<1>>, <<1, 2>>, <<2, 2, 2>>}

LearnDisks ==
    {[p \in {<<LearnPath(i), ".npz">> : i \in DOMAIN LearnBins} |->
         [X |-> c[CHOOSE i \in DOMAIN LearnBins : p[1] = LearnPath(i)],
          mut |-> <<0, 1>>]] :
        c \in [DOMAIN LearnBins -> LearnArrays]}

\* the keys the i-th artifact may be filed under: none (0) or one of the
\* first i mutation values 0, 1, ..
LearnKeys == {k \in [DOMAIN LearnBins -> 0..Len(LearnBins)] :
                 \A i \in DOMAIN LearnBins : k[i] <= i}

\* the dict that files the artifacts under the keys k, with the empty
\* path of a bin without data under key 0 when empty
LearnDict(k, empty) ==
    [isNone |-> FALSE,
     d |-> [m \in {<<k[i] - 1, 1>> : i \in {j \in DOMAIN k : k[j] > 0}}
                   \cup (IF empty THEN {<<0, 1>>} ELSE {}) |->
               (IF empty /\ m = <<0, 1>> THEN <<EmptyPath>> ELSE <<>>)
               \o [i \in 1..Len(KeepFrom(LearnBins,
                                          {j \in DOMAIN k :
                                              <<k[j] - 1, 1>> = m}, 1)) |->
                      Filename(Donor,
                               KeepFrom(LearnBins,
                                        {j \in DOMAIN k :
                                            <<k[j] - 1, 1>> = m}, 1)[i],
                               KeepFrom(LearnBins,
                                        {j \in DOMAIN k :
                                            <<k[j] - 1, 1>> = m}, 1)[i],
                               DefaultBins, DefaultMaxSeqs)]]]

LearnDicts ==
    {NoneDict} \cup {LearnDict(k, empty) : k \in LearnKeys, empty \in BOOLEAN}

InitLearn ==
    /\ db = <<>>
    /\ disk \in [files : LearnDisks, models : {<<>>}]
    /\ engineCalls = 0
    /\ npzWrites = 0
    /\ calls = 0
    /\ last \in [op : {"init"}, my_dict : LearnDicts, order : 0..MaxOrder]

LearningFunction ==
    /\ last.op = "init"
    /\ \E r \in {learning_function(disk.files, last.my_dict, last.order,
                                    thr, argsort) :
                     thr \in ThrChoices(disk.files, last.my_dict),
                     argsort \in ArgsortChoices(disk.files, last.my_dict)} :
         last' = [op |-> "learning_function",
                  isNone |-> last.my_dict.isNone,
                  order |-> last.order, exc |-> r.exc, func |-> r.func,
                  threshold |-> r.threshold, fitted |-> r.fitted,
                  thresholds |-> r.thresholds, samples |-> r.samples,
                  xvals |-> r.xvals]
    /\ UNCHANGED <<db, disk, engineCalls, npzWrites, calls>>

SpecLearn == InitLearn /\ [][LearningFunction]_vars

----------------------------------------------------------------------------
(* The properties.                                                         *)

\* C1: of two successive calls of intra_donor_distance with identical
\* (donor, lim_mut1, lim_mut2, bins, max_seqs), once the first has left the
\* artifact on disk the second returns the same cache path without raising,
\* does not invoke the nearest-neighbour engine and writes nothing.
C1_CacheIdempotence ==
    [][(/\ last.op = "intra_donor_distance"
        /\ last'.op = "intra_donor_distance"
        /\ calls' = calls + 1
        /\ last'.key = last.key
        /\ <<last.filename, ".npz">> \in DOMAIN disk.files)
       => (/\ last'.exc = "none"
           /\ last'.path = last.path
           /\ last'.path = last.filename
           /\ engineCalls' = engineCalls
           /\ npzWrites' = npzWrites
           /\ disk' = disk)]_vars

\* the second of two identical calls, the first of which computed and
\* persisted the artifact
C1_Witness ==
    /\ calls = 2
    /\ last.op = "intra_donor_distance"
    /\ last.prev = <<last.key, "none", last.filename>>
    /\ last.existed
    /\ last.path = last.filename
    /\ engineCalls = 1
    /\ npzWrites = 1

\* C2: for every maximum mutation M >= 0 and record count n >= 1 the bin
\* list of distr_muts begins with (0, 0), and whenever M = 0 the driver
\* returns None.
C2_Binning ==
    last.op = "distr_muts"
    => /\ last.sets[1] = ZeroBin
       /\ (last.max_mut = 0 => last.none)

\* C3: _gaussian_fit returns exactly 0 for an array of fewer than 2
\* elements and, for a longer array and every mixture fit, a value of the
\* grid on [0, 1], without raising.
C3_ThresholdBounds ==
    last.op = "_gaussian_fit"
    => /\ last.exc = "none"
       /\ (Len(last.array) < 2 => last.value = <<0, 1>>)
       /\ \E idx \in 0..(GridPoints - 1) : last.value = Lin(idx)
       /\ RLe(<<0, 1>>, last.value) /\ RLe(last.value, <<1, 1>>)

\* a fit of an array of 2 or more elements that assigns no grid point to
\* the component of largest mean: the threshold defaults to 0
C3_Witness ==
    /\ last.op = "_gaussian_fit"
    /\ Len(last.array) >= 2
    /\ \A i \in 0..(GridPoints - 1) :
           last.fit.pred[i] # ArgMax(last.fit.means)
    /\ last.exc = "none"
    /\ last.value = <<0, 1>>

\* the records of the database all have mutation level 0
AllUnmutated(f) == \A i \in DOMAIN Records(f) : Records(f)[i].mut = 0

\* C4: for a donor whose sequences all have mutation level 0, with no
\* model artifact on disk and nothing failing in distr_muts,
\* generate_correction_function does not raise and returns the identity
\* correction and threshold 0.
C4_InsufficientBin ==
    (/\ last.op = "generate_correction_function"
     /\ AllUnmutated(db)
     /\ disk.models = <<>>
     /\ last.caught = "none")
    => /\ last.exc = "none"
       /\ last.popt = Identity
       /\ last.threshold_naive = <<0, 1>>

\* C5: when computing the maximum mutation or the record count raises,
\* distr_muts returns an empty mapping and generate_correction_function
\* does not raise but returns the identity model and threshold 0.
C5_NoRaiseOnBinningFailure ==
    (/\ last.op = "generate_correction_function"
     /\ last.caught = "IOError")
    => /\ ~last.my_dict.isNone
       /\ DOMAIN last.my_dict.d = {}
       /\ last.exc = "none"
       /\ last.popt = Identity
       /\ last.threshold_naive = <<0, 1>>

\* C6: whenever learning_function performs a fit, the first element it
\* returns is the fitted rational model, not the polynomial; otherwise it
\* is the identity correction.
C6_RationalModel ==
    (last.op = "learning_function" /\ last.exc = "none")
    => IF last.fitted THEN last.func.kind = "rational"
       ELSE last.func = Identity

\* generate_correction_function called with both artifacts on disk
BothArtifacts(models) ==
    ParamsArtifact \in DOMAIN models /\ ThresholdArtifact \in DOMAIN models

\* C7: generate_correction_function skips distr_muts and
\* learning_function and returns the loaded artifacts if and only if both
\* artifacts exist at entry; it writes neither artifact, so every
\* invocation started without both of them recomputes.
C7_Memoization ==
    [][/\ disk'.models = disk.models
       /\ (last'.op = "generate_correction_function"
           => /\ last'.recomputed <=> ~BothArtifacts(disk'.models)
              /\ (BothArtifacts(disk'.models)
                  => /\ last'.exc = "none"
                     /\ last'.popt = disk'.models[ParamsArtifact]
                     /\ last'.threshold_naive
                            = disk'.models[ThresholdArtifact]
                     /\ engineCalls' = engineCalls
                     /\ npzWrites' = npzWrites))]_vars

\* an invocation with only the parameters artifact on disk recomputes,
\* down to the nearest-neighbour engine
C7_Witness ==
    /\ last.op = "generate_correction_function"
    /\ DOMAIN disk.models = {ParamsArtifact}
    /\ last.recomputed
    /\ engineCalls > 0

\* s is t with some elements left out, the others in their order
RECURSIVE IsSubsequence(_, _)
IsSubsequence(s, t) ==
    IF s = <<>> THEN TRUE
    ELSE IF t = <<>> THEN FALSE
    ELSE IF Head(s) = Head(t) THEN IsSubsequence(Tail(s), Tail(t))
    ELSE IsSubsequence(s, Tail(t))

\* C8: remove_duplicate_junctions returns a list no longer than its input,
\* without two sequences of equal normalized junction, every kept sequence
\* being the first occurrence of its normalized junction and the kept
\* sequences being in their original order.
C8_Deduplication ==
    last.op = "remove_duplicate_junctions"
    => /\ Len(last.igs) <= Len(last.igs_list)
       /\ \A i, j \in DOMAIN last.igs :
              i # j => junction_re(last.igs[i].junction)
                       # junction_re(last.igs[j].junction)
       /\ \A i \in DOMAIN last.igs :
              /\ last.igs_list[last.igs[i].id] = last.igs[i]
              /\ \A j \in 1..(last.igs[i].id - 1) :
                     junction_re(last.igs_list[j].junction)
                     # junction_re(last.igs[i].junction)
       /\ IsSubsequence(last.igs, last.igs_list)
       /\ \A j \in DOMAIN last.igs_list :
              \E i \in DOMAIN last.igs :
                  junction_re(last.igs[i].junction)
                  = junction_re(last.igs_list[j].junction)

\* a list of three sequences, the third spelling the junction of the first
\* with gap characters: the first two are kept
C8_Witness ==
    /\ last.op = "remove_duplicate_junctions"
    /\ Len(last.igs_list) = 3
    /\ last.igs_list[3].junction # last.igs_list[1].junction
    /\ junction_re(last.igs_list[3].junction)
       = junction_re(last.igs_list[1].junction)
    /\ last.igs = SubSeq(last.igs_list, 1, 2)

\* C9: for every set of 2 or more points reaching the polynomial fit and
\* every order, if the fit of that order is rank-deficient it is retried at
\* degree 2 and learning_function completes without raising.
C9_FallbackNeverRaises ==
    (/\ last.op = "learning_function"
     /\ last.fitted
     /\ RankDeficient(last.xvals, last.order))
    => /\ last.exc = "none"
       /\ last.func.order = 2

\* the threshold the selection is to return for the collected pairs
SelectedThreshold(threshold, thresholds, samples) ==
    LET positive == {i \in DOMAIN thresholds : Positive(thresholds[i])}
    IN  IF positive = {} THEN threshold = <<0, 1>>
        ELSE \E i \in positive :
                 /\ threshold = thresholds[i]
                 /\ \A j \in positive : samples[j] <= samples[i]

C11_InsufficientData ==
    [][(/\ last'.op = "intra_donor_distance"
        /\ calls' = calls + 1
        /\ <<last'.filename, ".npz">> \notin DOMAIN disk.files
        /\ \/ last'.n1 = 0
           \/ last'.n2 = 0
           \/ last'.n1 < last'.min_seqs
           \/ last'.n2 < last'.min_seqs)
       => (/\ last'.exc = "none"
           /\ last'.path = EmptyPath
           /\ engineCalls' = engineCalls
           /\ npzWrites' = npzWrites
           /\ disk' = disk)]_vars

\* the mean learning_function keeps for the mutation value k of the dict d:
\* that of the first non-empty path filed under k
MeanOfKey(files, d, k) ==
    LET first == CHOOSE i \in DOMAIN d[k] :
                     /\ d[k][i] # EmptyPath
                     /\ \A j \in 1..(i - 1) : d[k][j] = EmptyPath
    IN  MeanDist(files[<<d[k][first], ".npz">>].X)

\* C12: every strictly positive mean is divided by the least of them
\* (normalized_i = mean_i / min_mean), so the mutation value of least mean
\* maps to exactly 1 and every normalized value handed to the fits is >= 1.
C12_Normalization ==
    [][(/\ last.op = "init"
        /\ last'.op = "learning_function"
        /\ last'.exc = "none"
        /\ last'.fitted)
       => LET xvals == last'.func.xvals
              yvals == last'.func.yvals
              mean(i) == MeanOfKey(disk.files, last.my_dict.d, xvals[i])
          IN  /\ \A i \in DOMAIN xvals :
                     /\ \E j \in DOMAIN xvals :
                            /\ \A e \in DOMAIN xvals : RLe(mean(j), mean(e))
                            /\ yvals[i] = RDiv(mean(i), mean(j))
                     /\ RLe(<<1, 1>>, yvals[i])
              /\ \E j \in DOMAIN xvals :
                     /\ \A e \in DOMAIN xvals : RLe(mean(j), mean(e))
                     /\ yvals[j] = <<1, 1>>]_vars

====
